---- MODULE Spec2Model ----
(***************************************************************************)
(* A model of the constraint-validated binding system and of the problem   *)
(* generator of dpozorski/euler:                                           *)
(*   generic/objects/constraints  Constraint, ConstraintSet                *)
(*   generic/objects/variables    Variable, Binding, Solution              *)
(*   generic/objects/problems     Problem, ProblemGenerator                *)
(***************************************************************************)
EXTENDS Integers, Sequences, FiniteSets

(***************************************************************************)
(* Bounds.                                                                 *)
(***************************************************************************)
\* candidate values are 0..MaxValue; a constraint accepts the values up to its limit
MaxValue == 2
\* number of distinct Constraint objects that carry the same parameters
MaxCopies == 2
\* longest iterable handed to constrain / unconstrain / add / remove
MaxIter == 1
\* largest batch_size of a ProblemGenerator
MaxBatch == 2
\* number of base.randomize() calls after which the exploration stops
MaxDraws == 3
\* longest variable list of a generated Problem
MaxVars == 1
\* number of distinct Variable names
MaxNames == 2
\* longest variable list a Problem is given
MaxListLen == 2
\* largest Problem id
MaxId == 3
\* number of values the Binding.value accessor hands out
MaxHandles == 2

(***************************************************************************)
(* Values and constraints.                                                 *)
(***************************************************************************)
\* Python's None: what Binding._value is before the first successful bind
None == -1
Values == 0 .. MaxValue
ValuesOrNone == Values \cup {None}

\* Constraint is abstract; the concrete family modelled is an upper limit on
\* the value, with two limits: the strictest one, and the loosest one that
\* still rejects a value.
Limits == {0, MaxValue - 1}

\* A Constraint object: `id` is the object's identity, `hi` its parameter.
ConstraintObjs == [id : 1 .. MaxCopies, hi : Limits]
NoConstraint == [id |-> 0, hi |-> 0]

\* Constraint.__eq__ / __hash__: equality by parameters, not by identity
ConstraintEq(a, b) == a.hi = b.hi

\* Constraint.evaluate(value): TRUE when it returns, FALSE when it raises.
\* Comparing None with a number raises as well.
Evaluate(c, value) == value # None /\ value <= c.hi

\* the iterables a caller can pass
Iterables == UNION {[1 .. n -> ConstraintObjs] : n \in 0 .. MaxIter}

(***************************************************************************)
(* Python's set of hashable objects: at most one member per equality class.*)
(***************************************************************************)
HasEqual(S, c) == \E s \in S : ConstraintEq(s, c)

\* set.add on a copy: an element equal to a member is absorbed
PySetAdd(S, c) == IF HasEqual(S, c) THEN S ELSE S \cup {c}

RECURSIVE PySetFrom(_, _)
\* set(iterable) built on top of S: the elements are added in iteration order
PySetFrom(S, items) ==
    IF items = <<>> THEN S
    ELSE PySetFrom(PySetAdd(S, Head(items)), Tail(items))

\* set(iterable)
PySet(items) == PySetFrom({}, items)

PySetUnionById(S, T) == S \cup T

\* S.union(T): a copy of S to which the members of T are added
PySetUnion(S, T) == S \cup {t \in T : ~HasEqual(S, t)}

\* S - T: the members of S equal to no member of T
PySetDifference(S, T) == {s \in S : ~HasEqual(T, s)}

(***************************************************************************)
(* ConstraintSet.  The field _constraints is a set after construction and  *)
(* the empty dict {} after clear(); `tag` is the Python type of the field. *)
(***************************************************************************)
EmptyConstraintSet == [tag |-> "set", elems |-> {}]

\* does the call raise?  {}.union does not exist (AttributeError)
AddConstraintsError(cs) == IF cs.tag = "set" THEN "ok" ELSE "AttributeError"

\* ConstraintSet.add_constraints
AddConstraints(cs, items) ==
    IF cs.tag = "set"
    THEN [cs EXCEPT !.elems = PySetUnion(cs.elems, PySet(items))]
    ELSE cs

\* ConstraintSet.add_constraint: add_constraints({constraint})
AddConstraint(cs, c) == AddConstraints(cs, <<c>>)

\* does the call raise?  dict - set is a TypeError
RemoveConstraintsError(cs) == IF cs.tag = "set" THEN "ok" ELSE "TypeError"

\* ConstraintSet.remove_constraints
RemoveConstraints(cs, items) ==
    IF cs.tag = "set"
    THEN [cs EXCEPT !.elems = PySetDifference(cs.elems, PySet(items))]
    ELSE cs

\* ConstraintSet.remove_constraint: remove_constraints({constraint})
RemoveConstraint(cs, c) == RemoveConstraints(cs, <<c>>)

\* ConstraintSet.clear: self._constraints = {}
Clear(cs) == [tag |-> "dict", elems |-> {}]

\* ConstraintSet.constraints: list(self._constraints.copy()), as a set of members
ConstraintsOf(cs) == cs.elems

\* the orders in which list(set) can enumerate the members
Orderings(S) ==
    {f \in [1 .. Cardinality(S) -> S] : \A i, j \in DOMAIN f : i # j => f[i] # f[j]}

(***************************************************************************)
(* State.                                                                  *)
(***************************************************************************)
VARIABLES
    var_constraints,    \* per Variable object: _constraint_set._constraints
    binding_variable,   \* Binding._variable
    binding_value,      \* Binding._value
    set_constraints,    \* a ConstraintSet used on its own: _constraints
    last,               \* the last call made: operation, arguments, outcome
    batch_size,         \* ProblemGenerator._batch_size
    pc,                 \* where batch() is: idle, for, solve, row, returned, raised
    curr_batch_size,    \* batch(): local curr_batch_size
    batch,              \* batch(): local list of rows
    problem,            \* batch(): the loop variable
    solution,           \* batch(): local solution
    error,              \* the exception batch() ended with
    rand_calls,         \* number of base.randomize() calls made
    solve_calls,        \* number of solve() calls made
    rand_out,           \* what the latest base.randomize() call returned or raised
    next_out,           \* what the latest next() call returned or raised
    solved,             \* the Problem objects solve() was called on, in order
    base,               \* a Problem: its _id, _description and _variables
    lists,              \* heap: per list object, the object that is its element
    cells,              \* heap: per element object, the number it holds
    returned,           \* how many lists the Binding.value accessor has handed out
    returned_cs         \* the ConstraintSet of the object Binding.variable returned

gvars == <<batch_size, pc, curr_batch_size, batch, problem, solution, error,
           rand_calls, solve_calls, rand_out, next_out, solved>>

\* the state of the Problem and of the objects handed out by the accessors
ovars == <<base, lists, cells, returned, returned_cs>>

vars == <<var_constraints, binding_variable, binding_value, set_constraints, last,
          gvars, ovars>>

\* the Variable objects: a plain Variable and a Solution
VariableObjs == {"v", "solution"}

\* a second plain Variable, for a Binding to be associated with
AllVariableObjs == VariableObjs \cup {"w"}

\* class Solution(Variable)
IsSolution(var) == var = "solution"

\* the argument of constrain / unconstrain: one Constraint or an iterable
Args ==
    [single : {TRUE}, c : ConstraintObjs, items : {<<>>}]
        \cup [single : {FALSE}, c : {NoConstraint}, items : Iterables]
NoArg == [single |-> FALSE, c |-> NoConstraint, items |-> <<>>]

\* constraints = [constraints] if isinstance(constraints, Constraint) else constraints
Normalise(arg) == IF arg.single THEN <<arg.c>> ELSE arg.items

Call(op, target, arg, val, res, bad, pos) ==
    [op |-> op, target |-> target, arg |-> arg, val |-> val,
     res |-> res, bad |-> bad, pos |-> pos]

(***************************************************************************)
(* The objects of the other components, as they are when nothing has been  *)
(* done with them.                                                         *)
(***************************************************************************)
\* the list objects: the one held in Binding._value, and the k-th list the
\* value accessor handed out
StoredList == 0
ListObjs == {StoredList} \cup 1 .. MaxHandles
\* the objects a list can hold as its element: the one that was bound, and the
\* one the caller puts into the k-th list it was given
BoundElem == 0
ElemObjs == {BoundElem} \cup 1 .. MaxHandles

InitHeap ==
    /\ lists = [l \in ListObjs |-> BoundElem]
    /\ cells = [e \in ElemObjs |-> 0]
    /\ returned = 0

InitProblem == base = [id |-> 1, description |-> "a", variables |-> <<>>]

(***************************************************************************)
(* Problem and ProblemGenerator.  randomize() and solve() are abstract:    *)
(* what they return or raise is an input.                                  *)
(***************************************************************************)
NoProblem == [res |-> "none", id |-> 0, vars |-> 0, binding_attr |-> FALSE]
NoSolution == [res |-> "none", value_attr |-> FALSE, value |-> None]
StopIteration == [res |-> "StopIteration", id |-> 0, vars |-> 0, binding_attr |-> FALSE]

\* Problem.randomize(): the id-th instance produced, with its variable list,
\* or the failure to produce one.  class Variable defines no attribute
\* `binding`; binding_attr tells whether the instance's variables carry one.
RandomizeOutcomes(id) ==
    [res : {"ok"}, id : {id}, vars : 0 .. MaxVars, binding_attr : BOOLEAN]
        \cup {[res |-> "GenerationError", id |-> id, vars |-> 0, binding_attr |-> FALSE]}

\* Problem.solve(): a Solution or a failure.  class Solution defines no
\* attribute `value`; value_attr tells whether the returned object carries one.
SolveOutcomes ==
    [res : {"ok"}, value_attr : BOOLEAN, value : Values]
        \cup {[res |-> "PreconditionError", value_attr |-> FALSE, value |-> None]}

GeneratorNextOnce(out) == IF out.id > 1 THEN StopIteration ELSE out

\* ProblemGenerator.next: return self.base.randomize()
GeneratorNext(out) == out

\* one call of next(): one call of base.randomize()
NextStep(out) ==
    /\ rand_calls < MaxDraws
    /\ out \in RandomizeOutcomes(rand_calls + 1)
    /\ rand_calls' = rand_calls + 1
    /\ rand_out' = out
    /\ next_out' = GeneratorNext(out)

Running == pc \in {"for", "solve", "row"}

PropagateCaught(err) == [pc |-> "returned", error |-> "none"]

\* batch() has no try / except: an exception raised inside the loop ends the
\* call and reaches the caller
Propagate(err) == [pc |-> "raised", error |-> err]

SolveTargetBase(p) == 0

\* problem.solve(): the object solve() is called on is the loop variable; the
\* instances are numbered from 1 and 0 is the template self.base
SolveTarget(p) == p.id

\* ProblemGenerator.next called by the user
GeneratorNextCall ==
    /\ ~Running
    /\ \E out \in RandomizeOutcomes(rand_calls + 1) : NextStep(out)
    /\ last' = Call("next", "generator", NoArg, None, next_out'.res, NoConstraint, 0)
    /\ UNCHANGED <<var_constraints, binding_variable, binding_value, set_constraints,
                   ovars,
                   batch_size, pc, curr_batch_size, batch, problem, solution, error,
                   solve_calls, solved>>

\* ProblemGenerator.__next__: return self.next()
GeneratorDunderNext ==
    /\ ~Running
    /\ \E out \in RandomizeOutcomes(rand_calls + 1) : NextStep(out)
    /\ last' = Call("__next__", "generator", NoArg, None, next_out'.res, NoConstraint, 0)
    /\ UNCHANGED <<var_constraints, binding_variable, binding_value, set_constraints,
                   ovars,
                   batch_size, pc, curr_batch_size, batch, problem, solution, error,
                   solve_calls, solved>>

\* batch(): curr_batch_size, batch = 0, []
BatchStart ==
    /\ ~Running
    /\ pc' = "for"
    /\ curr_batch_size' = 0
    /\ batch' = <<>>
    /\ problem' = NoProblem
    /\ solution' = NoSolution
    /\ error' = "none"
    /\ last' = Call("batch", "generator", NoArg, None, "ok", NoConstraint, 0)
    /\ UNCHANGED <<var_constraints, binding_variable, binding_value, set_constraints,
                   ovars,
                   batch_size, rand_calls, solve_calls, rand_out, next_out, solved>>

\* batch(): for problem in self.__iter__(): one __next__() per iteration; the
\* loop ends when __next__ raises StopIteration, and then
\* return pd.DataFrame(batch)
BatchFor ==
    /\ pc = "for"
    /\ \E out \in RandomizeOutcomes(rand_calls + 1) : NextStep(out)
    /\ IF next_out'.res = "ok"
       THEN pc' = "solve" /\ problem' = next_out' /\ error' = error
       ELSE IF next_out'.res = "StopIteration"
       THEN pc' = "returned" /\ problem' = problem /\ error' = error
       ELSE /\ pc' = Propagate(next_out'.res).pc
            /\ error' = Propagate(next_out'.res).error
            /\ problem' = problem
    /\ last' = Call("for", "generator", NoArg, None, next_out'.res, NoConstraint, 0)
    /\ UNCHANGED <<var_constraints, binding_variable, binding_value, set_constraints,
                   ovars,
                   batch_size, curr_batch_size, batch, solution, solve_calls, solved>>

\* batch(): solution = problem.solve()
BatchSolve ==
    /\ pc = "solve"
    /\ \E sol \in SolveOutcomes :
          /\ solution' = sol
          /\ IF sol.res = "ok"
             THEN pc' = "row" /\ error' = error
             ELSE /\ pc' = Propagate(sol.res).pc
                  /\ error' = Propagate(sol.res).error
          /\ last' = Call("solve", "generator", NoArg, None, sol.res, NoConstraint, 0)
    /\ solve_calls' = solve_calls + 1
    /\ solved' = Append(solved, SolveTarget(problem))
    /\ UNCHANGED <<var_constraints, binding_variable, binding_value, set_constraints,
                   ovars,
                   batch_size, curr_batch_size, batch, problem,
                   rand_calls, rand_out, next_out>>

\* instance = {var.name: var.binding for var in problem.variables}
\* instance["solution"] = solution.value
RowError(p, sol) ==
    IF p.vars > 0 /\ ~p.binding_attr THEN "AttributeError"
    ELSE IF ~sol.value_attr THEN "AttributeError"
    ELSE "ok"

\* the row: the instance it was built from, its variable columns, its solution
Row(p, sol) == [id |-> p.id, vars |-> p.vars, solution |-> sol.value]

\* batch(): build the row, batch.append(instance), curr_batch_size += 1
BatchRow ==
    /\ pc = "row"
    /\ IF RowError(problem, solution) = "ok"
       THEN /\ batch' = Append(batch, Row(problem, solution))
            /\ curr_batch_size' = curr_batch_size + 1
            /\ pc' = "for"
            /\ error' = error
       ELSE /\ pc' = Propagate(RowError(problem, solution)).pc
            /\ error' = Propagate(RowError(problem, solution)).error
            /\ UNCHANGED <<batch, curr_batch_size>>
    /\ last' = Call("row", "generator", NoArg, None, RowError(problem, solution),
                    NoConstraint, 0)
    /\ UNCHANGED <<var_constraints, binding_variable, binding_value, set_constraints,
                   ovars,
                   batch_size, problem, solution,
                   rand_calls, solve_calls, rand_out, next_out, solved>>

\* ProblemGenerator(base, batch_size), before any call
InitGeneratorState ==
    /\ pc = "idle"
    /\ curr_batch_size = 0
    /\ batch = <<>>
    /\ problem = NoProblem
    /\ solution = NoSolution
    /\ error = "none"
    /\ rand_calls = 0
    /\ solve_calls = 0
    /\ rand_out = NoProblem
    /\ next_out = NoProblem
    /\ solved = <<>>

InitGen ==
    /\ var_constraints = [var \in AllVariableObjs |-> EmptyConstraintSet]
    /\ binding_variable = "v"
    /\ binding_value = None
    /\ set_constraints = EmptyConstraintSet
    /\ last = Call("init", "generator", NoArg, None, "ok", NoConstraint, 0)
    /\ batch_size \in 1 .. MaxBatch
    /\ InitGeneratorState
    /\ InitHeap /\ InitProblem /\ returned_cs = "none"

NextGen ==
    \/ GeneratorNextCall
    \/ GeneratorDunderNext
    \/ BatchStart
    \/ BatchFor
    \/ BatchSolve
    \/ BatchRow

SpecGen == InitGen /\ [][NextGen]_vars

(***************************************************************************)
(* Binding.bind                                                            *)
(***************************************************************************)
RECURSIVE FirstViolationFrom(_, _, _)
FirstViolationFrom(order, value, i) ==
    IF i > Len(order) THEN 0
    ELSE IF ~Evaluate(order[i], value) THEN i
    ELSE FirstViolationFrom(order, value, i + 1)

FirstViolationHeadOnly(order, value) ==
    IF Len(order) > 0 /\ ~Evaluate(order[1], value) THEN 1 ELSE 0

\* for constraint in self._variable.constraints: constraint.evaluate(value)
\* the position at which evaluate raises, 0 when the loop completes
FirstViolation(order, value) == FirstViolationFrom(order, value, 1)

BindValueEager(old, order, value) == value

\* self._value = value, reached only when the loop completes
BindValue(old, order, value) ==
    IF FirstViolation(order, value) = 0 THEN value ELSE old

\* the exception of the constraint that raised, if any
BindResult(order, value) ==
    IF FirstViolation(order, value) = 0 THEN "ok" ELSE "ValueError"

Bind(value) ==
    \E order \in Orderings(ConstraintsOf(var_constraints[binding_variable])) :
        LET pos == FirstViolation(order, value) IN
        /\ binding_value' = BindValue(binding_value, order, value)
        /\ last' = Call("bind", binding_variable, NoArg, value,
                        BindResult(order, value),
                        IF pos = 0 THEN NoConstraint ELSE order[pos], pos)
        /\ UNCHANGED <<var_constraints, binding_variable, set_constraints, gvars, ovars>>

(***************************************************************************)
(* Variable.constrain / Variable.unconstrain / Solution.constrain          *)
(***************************************************************************)
SolutionConstrainInherited(cs, arg) == AddConstraints(cs, Normalise(arg))

\* Solution.constrain: raise NotImplementedError(); nothing is added
SolutionConstrain(cs, arg) == cs

SolutionConstrainResultUnlessEmpty(arg) ==
    IF Normalise(arg) = <<>> THEN "ok" ELSE "NotImplementedError"

SolutionConstrainResult(arg) == "NotImplementedError"

\* Variable.constrain: normalise, then add_constraints; bind is not called
VariableConstrain(cs, arg) == AddConstraints(cs, Normalise(arg))

Constrain(var, arg) ==
    /\ var_constraints' = [var_constraints EXCEPT ![var] =
            IF IsSolution(var) THEN SolutionConstrain(@, arg)
            ELSE VariableConstrain(@, arg)]
    /\ last' = Call("constrain", var, arg, None,
                    IF IsSolution(var) THEN SolutionConstrainResult(arg)
                    ELSE AddConstraintsError(var_constraints[var]),
                    NoConstraint, 0)
    /\ UNCHANGED <<binding_variable, binding_value, set_constraints, gvars, ovars>>

\* Variable.unconstrain: normalise, then remove_constraints (inherited by Solution)
VariableUnconstrain(cs, arg) == RemoveConstraints(cs, Normalise(arg))

Unconstrain(var, arg) ==
    /\ var_constraints' = [var_constraints EXCEPT ![var] = VariableUnconstrain(@, arg)]
    /\ last' = Call("unconstrain", var, arg, None,
                    RemoveConstraintsError(var_constraints[var]), NoConstraint, 0)
    /\ UNCHANGED <<binding_variable, binding_value, set_constraints, gvars, ovars>>

(***************************************************************************)
(* Construction.                                                           *)
(***************************************************************************)
\* ConstraintSet.__init__(constraints)
NewConstraintSet(items) == AddConstraints(EmptyConstraintSet, items)

\* Variable("v", ..., constraints), Solution(description) with constraints=None,
\* Binding(v, value): _value = None, then bind(value), which has to return
InitVariables ==
    /\ \E items \in Iterables :
          var_constraints = [var \in AllVariableObjs |->
              IF var = "v" THEN NewConstraintSet(items)
              ELSE NewConstraintSet(<<>>)]
    /\ binding_variable = "v"
    /\ \E value \in ValuesOrNone :
          /\ \A order \in Orderings(ConstraintsOf(var_constraints[binding_variable])) :
                FirstViolation(order, value) = 0
          /\ binding_value = BindValue(None, <<>>, value)

Init ==
    /\ InitVariables
    /\ set_constraints = EmptyConstraintSet
    /\ last = Call("init", "v", NoArg, None, "ok", NoConstraint, 0)
    /\ batch_size = 1
    /\ InitGeneratorState
    /\ InitHeap /\ InitProblem /\ returned_cs = "none"

Next ==
    \/ \E value \in ValuesOrNone : Bind(value)
    \/ \E var \in VariableObjs, arg \in Args : Constrain(var, arg)
    \/ \E var \in VariableObjs, arg \in Args : Unconstrain(var, arg)

Spec == Init /\ [][Next]_vars

(***************************************************************************)
(* A ConstraintSet used directly: add, remove and clear.                   *)
(***************************************************************************)
SingleArg(c) == [single |-> TRUE, c |-> c, items |-> <<>>]
IterableArg(items) == [single |-> FALSE, c |-> NoConstraint, items |-> items]

SetAddConstraint(c) ==
    /\ set_constraints' = AddConstraint(set_constraints, c)
    /\ last' = Call("add_constraint", "cs", SingleArg(c), None,
                    AddConstraintsError(set_constraints), NoConstraint, 0)
    /\ UNCHANGED <<var_constraints, binding_variable, binding_value, gvars, ovars>>

SetAddConstraints(items) ==
    /\ set_constraints' = AddConstraints(set_constraints, items)
    /\ last' = Call("add_constraints", "cs", IterableArg(items), None,
                    AddConstraintsError(set_constraints), NoConstraint, 0)
    /\ UNCHANGED <<var_constraints, binding_variable, binding_value, gvars, ovars>>

SetRemoveConstraint(c) ==
    /\ set_constraints' = RemoveConstraint(set_constraints, c)
    /\ last' = Call("remove_constraint", "cs", SingleArg(c), None,
                    RemoveConstraintsError(set_constraints), NoConstraint, 0)
    /\ UNCHANGED <<var_constraints, binding_variable, binding_value, gvars, ovars>>

SetRemoveConstraints(items) ==
    /\ set_constraints' = RemoveConstraints(set_constraints, items)
    /\ last' = Call("remove_constraints", "cs", IterableArg(items), None,
                    RemoveConstraintsError(set_constraints), NoConstraint, 0)
    /\ UNCHANGED <<var_constraints, binding_variable, binding_value, gvars, ovars>>

SetClear ==
    /\ set_constraints' = Clear(set_constraints)
    /\ last' = Call("clear", "cs", NoArg, None, "ok", NoConstraint, 0)
    /\ UNCHANGED <<var_constraints, binding_variable, binding_value, gvars, ovars>>

\* ConstraintSet(constraints): None, one Constraint or an iterable
InitSet ==
    /\ var_constraints = [var \in AllVariableObjs |-> EmptyConstraintSet]
    /\ binding_variable = "v"
    /\ binding_value = None
    /\ \E arg \in Args : set_constraints = NewConstraintSet(Normalise(arg))
    /\ last = Call("init", "cs", NoArg, None, "ok", NoConstraint, 0)
    /\ batch_size = 1
    /\ InitGeneratorState
    /\ InitHeap /\ InitProblem /\ returned_cs = "none"

NextSet ==
    \/ \E c \in ConstraintObjs : SetAddConstraint(c)
    \/ \E items \in Iterables : SetAddConstraints(items)
    \/ \E c \in ConstraintObjs : SetRemoveConstraint(c)
    \/ \E items \in Iterables : SetRemoveConstraints(items)
    \/ SetClear

SpecSet == InitSet /\ [][NextSet]_vars

(***************************************************************************)
(* Problem: the constructor and the property setters.                      *)
(***************************************************************************)
\* a Variable of the list is represented by its name
Names == 1 .. MaxNames
VariableLists == UNION {[1 .. n -> Names] : n \in 0 .. MaxListLen}
ProblemIds == 1 .. MaxId
Descriptions == {"a", "b"}

\* Problem.id setter: self._id = id
ProblemSetId(id) ==
    /\ base' = [base EXCEPT !.id = id]
    /\ last' = Call("id", "problem", NoArg, None, "ok", NoConstraint, 0)
    /\ UNCHANGED <<var_constraints, binding_variable, binding_value, set_constraints,
                   gvars, lists, cells, returned, returned_cs>>

\* Problem.description setter: self._description = description
ProblemSetDescription(description) ==
    /\ base' = [base EXCEPT !.description = description]
    /\ last' = Call("description", "problem", NoArg, None, "ok", NoConstraint, 0)
    /\ UNCHANGED <<var_constraints, binding_variable, binding_value, set_constraints,
                   gvars, lists, cells, returned, returned_cs>>

\* Problem.variables setter: self._variables = variables
ProblemSetVariables(variables) ==
    /\ base' = [base EXCEPT !.variables = variables]
    /\ last' = Call("variables", "problem", NoArg, None, "ok", NoConstraint, 0)
    /\ UNCHANGED <<var_constraints, binding_variable, binding_value, set_constraints,
                   gvars, lists, cells, returned, returned_cs>>

\* Problem(id, description, variables): the three setters
InitProblemSpec ==
    /\ var_constraints = [var \in AllVariableObjs |-> EmptyConstraintSet]
    /\ binding_variable = "v"
    /\ binding_value = None
    /\ set_constraints = EmptyConstraintSet
    /\ last = Call("init", "problem", NoArg, None, "ok", NoConstraint, 0)
    /\ batch_size = 1
    /\ InitGeneratorState
    /\ InitHeap /\ returned_cs = "none"
    /\ base \in [id : ProblemIds, description : Descriptions, variables : VariableLists]

NextProblem ==
    \/ \E id \in ProblemIds : ProblemSetId(id)
    \/ \E description \in Descriptions : ProblemSetDescription(description)
    \/ \E variables \in VariableLists : ProblemSetVariables(variables)

SpecProblem == InitProblemSpec /\ [][NextProblem]_vars

(***************************************************************************)
(* Binding.reassociate, between two Variables whose constraints are fixed. *)
(***************************************************************************)
\* self._variable = variable, which comes before the bind
ReassociateVariable(old, var, order, value) == var

\* Binding.reassociate: self._variable = variable; self.bind(value=self._value)
Reassociate(var) ==
    \E order \in Orderings(ConstraintsOf(var_constraints[var])) :
        LET pos == FirstViolation(order, binding_value) IN
        /\ binding_variable' =
                ReassociateVariable(binding_variable, var, order, binding_value)
        /\ binding_value' = BindValue(binding_value, order, binding_value)
        /\ last' = Call("reassociate", var, NoArg, binding_value,
                        BindResult(order, binding_value),
                        IF pos = 0 THEN NoConstraint ELSE order[pos], pos)
        /\ UNCHANGED <<var_constraints, set_constraints, gvars, ovars>>

BindingTargets == {"v", "w"}

\* Variable("v", ..., constraints), Variable("w", ..., constraints) and
\* Binding(v, value), whose bind(value) has to return
InitBinding ==
    /\ \E vitems \in Iterables, witems \in Iterables :
          var_constraints = [var \in AllVariableObjs |->
              IF var = "v" THEN NewConstraintSet(vitems)
              ELSE IF var = "w" THEN NewConstraintSet(witems)
              ELSE NewConstraintSet(<<>>)]
    /\ binding_variable = "v"
    /\ \E value \in ValuesOrNone :
          /\ \A order \in Orderings(ConstraintsOf(var_constraints[binding_variable])) :
                FirstViolation(order, value) = 0
          /\ binding_value = BindValue(None, <<>>, value)
    /\ set_constraints = EmptyConstraintSet
    /\ last = Call("init", "v", NoArg, None, "ok", NoConstraint, 0)
    /\ batch_size = 1
    /\ InitGeneratorState
    /\ InitHeap /\ InitProblem /\ returned_cs = "none"

NextBinding ==
    \/ \E value \in ValuesOrNone : Bind(value)
    \/ \E var \in BindingTargets : Reassociate(var)

SpecBinding == InitBinding /\ [][NextBinding]_vars

(***************************************************************************)
(* Binding.variable, and constrain / unconstrain on the object it returns. *)
(* A ConstraintSet object is named after the Variable constructed with it. *)
(***************************************************************************)
\* copy.copy(self._variable): a new Variable object whose _constraint_set is
\* the ConstraintSet object of var
CopiedConstraintSet(var) == var

\* Binding.variable: return copy.copy(self._variable)
VariableAccessor ==
    /\ returned_cs' = CopiedConstraintSet(binding_variable)
    /\ last' = Call("variable", binding_variable, NoArg, None, "ok", NoConstraint, 0)
    /\ UNCHANGED <<var_constraints, binding_variable, binding_value, set_constraints,
                   gvars, base, lists, cells, returned>>

\* constrain(arg) on the returned Variable: add_constraints on its ConstraintSet
ConstrainReturned(arg) ==
    /\ returned_cs # "none"
    /\ var_constraints' = [var_constraints EXCEPT ![returned_cs] =
                                VariableConstrain(@, arg)]
    /\ last' = Call("returned.constrain", returned_cs, arg, None,
                    AddConstraintsError(var_constraints[returned_cs]), NoConstraint, 0)
    /\ UNCHANGED <<binding_variable, binding_value, set_constraints, gvars, ovars>>

\* unconstrain(arg) on the returned Variable: remove_constraints on its ConstraintSet
UnconstrainReturned(arg) ==
    /\ returned_cs # "none"
    /\ var_constraints' = [var_constraints EXCEPT ![returned_cs] =
                                VariableUnconstrain(@, arg)]
    /\ last' = Call("returned.unconstrain", returned_cs, arg, None,
                    RemoveConstraintsError(var_constraints[returned_cs]), NoConstraint, 0)
    /\ UNCHANGED <<binding_variable, binding_value, set_constraints, gvars, ovars>>

NextAccessor ==
    \/ \E value \in ValuesOrNone : Bind(value)
    \/ VariableAccessor
    \/ \E arg \in Args : ConstrainReturned(arg)
    \/ \E arg \in Args : UnconstrainReturned(arg)

SpecAccessor == Init /\ [][NextAccessor]_vars

(***************************************************************************)
(* Binding.value on a mutable value.  The bound value is a list that holds *)
(* one mutable element (a list holding a number): [[n]].                   *)
(***************************************************************************)
\* the number found by following the list held in Binding._value
StoredValue == cells[lists[StoredList]]

\* copy.copy(list): a new list object, new, that holds the element object of l
ShallowCopy(l, new) == [lists EXCEPT ![new] = lists[l]]

\* Binding.value: return copy.copy(self._value)
ValueAccessor ==
    /\ returned < MaxHandles
    /\ lists' = ShallowCopy(StoredList, returned + 1)
    /\ returned' = returned + 1
    /\ last' = Call("value", "binding", NoArg, StoredValue, "ok", NoConstraint, 0)
    /\ UNCHANGED <<var_constraints, binding_variable, binding_value, set_constraints,
                   gvars, base, cells, returned_cs>>

\* the caller replaces the element of the k-th list it was given by a new
\* element object: returned[0] = [n]
MutateReturned(k, n) ==
    /\ k \in 1 .. returned
    /\ lists' = [lists EXCEPT ![k] = k]
    /\ cells' = [cells EXCEPT ![k] = n]
    /\ last' = Call("mutate", "caller", NoArg, n, "ok", NoConstraint, k)
    /\ UNCHANGED <<var_constraints, binding_variable, binding_value, set_constraints,
                   gvars, base, returned, returned_cs>>

\* the caller mutates the element nested in the k-th list it was given:
\* returned[0][0] = n
MutateNested(k, n) ==
    /\ k \in 1 .. returned
    /\ cells' = [cells EXCEPT ![lists[k]] = n]
    /\ last' = Call("mutate_nested", "caller", NoArg, n, "ok", NoConstraint, k)
    /\ UNCHANGED <<var_constraints, binding_variable, binding_value, set_constraints,
                   gvars, base, lists, returned, returned_cs>>

\* Binding(v, [[n]]) on a variable without constraints
InitValue ==
    /\ var_constraints = [var \in AllVariableObjs |-> EmptyConstraintSet]
    /\ binding_variable = "v"
    /\ binding_value = None
    /\ set_constraints = EmptyConstraintSet
    /\ last = Call("init", "binding", NoArg, None, "ok", NoConstraint, 0)
    /\ batch_size = 1
    /\ InitGeneratorState
    /\ InitProblem /\ returned_cs = "none"
    /\ lists = [l \in ListObjs |-> BoundElem]
    /\ \E n \in Values : cells = [e \in ElemObjs |-> IF e = BoundElem THEN n ELSE 0]
    /\ returned = 0

NextValue ==
    \/ ValueAccessor
    \/ \E k \in 1 .. MaxHandles, n \in Values : MutateReturned(k, n)
    \/ \E k \in 1 .. MaxHandles, n \in Values : MutateNested(k, n)

SpecValue == InitValue /\ [][NextValue]_vars

(***************************************************************************)
(* Properties of Variable, Binding and Solution.                           *)
(***************************************************************************)
BindingConstraints == ConstraintsOf(var_constraints[binding_variable])

\* C1: whenever the bound value is set, it satisfies every constraint that is
\* currently in the constraint set of the binding's variable.
C1_BoundValueSatisfiesConstraints ==
    binding_value # None =>
        \A c \in BindingConstraints : Evaluate(c, binding_value)

\* C2: bind(x) with x other than None succeeds exactly when x satisfies every
\* constraint in the variable's set, and on success the stored value is x.
C2_BindSucceedsIffSatisfied ==
    (last.op = "bind" /\ last.val # None) =>
        /\ last.res = "ok" <=> \A c \in BindingConstraints : Evaluate(c, last.val)
        /\ last.res = "ok" => binding_value = last.val

\* a bind of a set value went through a set of two constraints
C2_Witness ==
    /\ last.op = "bind" /\ last.val # None /\ last.res = "ok"
    /\ Cardinality(BindingConstraints) >= 2
    /\ binding_value = last.val

\* C3: a bind(x) whose x violates some constraint of the set raises the
\* constraint's error and leaves the stored value as it was, wherever the
\* violated constraint comes in the iteration order.
C3_FailedBindIsAtomic ==
    [][(last'.op = "bind" /\ \E c \in BindingConstraints : ~Evaluate(c, last'.val))
          => (last'.res = "ValueError" /\ binding_value' = binding_value)]_vars

\* a bind failed on a constraint that was not the first one evaluated, and a
\* set value survived it
C3_Witness ==
    /\ last.op = "bind" /\ last.res = "ValueError" /\ last.pos >= 2
    /\ binding_value # None /\ binding_value # last.val

\* C4: constrain(c) on a variable whose bound value violates c fails with the
\* validation error.
C4_ConstrainRevalidatesBinding ==
    (/\ last.op = "constrain" /\ last.target = binding_variable
     /\ binding_value # None
     /\ \E i \in DOMAIN Normalise(last.arg) :
            ~Evaluate(Normalise(last.arg)[i], binding_value))
        => last.res = "ValueError"

\* C7: Solution.constrain raises NotImplementedError for a single constraint,
\* for an empty iterable and for a non-empty one, and adds nothing.
C7_SolutionConstrainAlwaysFails ==
    [][(last'.op = "constrain" /\ IsSolution(last'.target))
          => (/\ last'.res = "NotImplementedError"
              /\ var_constraints'["solution"] = var_constraints["solution"])]_vars

\* Solution.constrain was called with an iterable of constraints
C7_Witness ==
    /\ last.op = "constrain" /\ IsSolution(last.target)
    /\ ~last.arg.single /\ Len(last.arg.items) >= 1
    /\ last.res = "NotImplementedError"

\* C8: the constraints accessor of a Solution returns the empty list in every
\* state reachable by constrain and unconstrain calls.
C8_SolutionConstraintsEmpty ==
    ConstraintsOf(var_constraints["solution"]) = {}

\* unconstrain was called on the Solution with a constraint to remove
C8_Witness ==
    /\ last.op = "unconstrain" /\ IsSolution(last.target)
    /\ Normalise(last.arg) # <<>> /\ last.res = "ok"
    /\ ConstraintsOf(var_constraints["solution"]) = {}

\* C14: bind(None) evaluates no constraint, succeeds whatever the constraint
\* set is, and leaves the binding unset.
C14_BindNoneSkipsValidation ==
    (last.op = "bind" /\ last.val = None) =>
        (last.res = "ok" /\ last.pos = 0 /\ binding_value = None)

(***************************************************************************)
(* Properties of ProblemGenerator.                                         *)
(***************************************************************************)
\* C5: batch() draws exactly batch_size instances, then returns a dataset of
\* exactly batch_size rows: it never holds more rows than batch_size, and it
\* returns with batch_size rows.
C5_BatchDrawsBatchSize ==
    /\ curr_batch_size <= batch_size
    /\ Len(batch) <= batch_size
    /\ pc = "returned" => Len(batch) = batch_size

NextOps == {"next", "__next__", "for"}

\* C6: every next() / __next__() call, after any number of earlier ones, makes
\* exactly one base.randomize() call and returns (or raises) what that call
\* returned (or raised); it never signals the end of the iteration.
C6_NextIsOneRandomize ==
    [][last'.op \in NextOps
          => (/\ rand_calls' = rand_calls + 1
              /\ rand_out'.id = rand_calls'
              /\ next_out' = rand_out'
              /\ next_out'.res # "StopIteration")]_vars

\* a __next__() call that followed at least two earlier draws returned an instance
C6_Witness ==
    /\ last.op = "__next__" /\ rand_calls >= 3
    /\ next_out.res = "ok" /\ next_out.id = rand_calls

\* C11: when randomize() and solve() have succeeded for an instance, building
\* its row does not fail, and the row holds the bindings of the instance's
\* variables and, under "solution", the value of the Solution solve() returned.
C11_RowBuilds ==
    last.op = "row" =>
        /\ last.res = "ok"
        /\ Len(batch) >= 1
        /\ batch[Len(batch)] = Row(problem, solution)

Range(seq) == {seq[i] : i \in DOMAIN seq}

\* C12: during batch(), solve() is called once on every instance drawn, after
\* randomize() produced it, and never on the template: the calls are on
\* distinct instances that randomize() has produced, each call is on the
\* instance drawn last, and an instance is solved before the next is drawn.
C12_SolveOncePerInstance ==
    /\ [](/\ Len(solved) = solve_calls
          /\ \A i, j \in DOMAIN solved : i # j => solved[i] # solved[j]
          /\ \A i \in DOMAIN solved : solved[i] >= 1 /\ solved[i] <= rand_calls
          /\ pc = "solve" => problem.id \notin Range(solved)
          /\ pc = "row" => problem.id = solved[Len(solved)]
          /\ \A i \in DOMAIN batch : batch[i].id \in Range(solved))
    /\ [][last'.op = "solve"
            => (/\ solved' = Append(solved, next_out.id)
                /\ next_out.res = "ok" /\ next_out = rand_out)]_vars

\* the second instance of a batch has been solved, after the first one
C12_Witness ==
    /\ pc = "row" /\ Len(batch) = 1 /\ Len(solved) = 2
    /\ solved[1] = batch[1].id /\ solved[2] = problem.id

FailedOutcomes == {"GenerationError", "PreconditionError"}

\* C13: when randomize() or solve() fails for an instance, batch() ends with
\* that error and returns nothing, whatever rows it had built.
C13_BatchPropagatesFailure ==
    [][(/\ last'.op \in {"for", "solve"}
        /\ last'.res \in FailedOutcomes)
          => (pc' = "raised" /\ error' = last'.res)]_vars

\* solve() failed on the second instance, after a row had been built
C13_Witness ==
    /\ pc = "raised" /\ error = "PreconditionError" /\ last.op = "solve"
    /\ Len(batch) >= 1

(***************************************************************************)
(* Properties of the Binding accessors.                                    *)
(***************************************************************************)
\* C16: no mutation the caller performs on the value the accessor returned,
\* on the value itself or on a mutable element nested in it, changes the
\* value stored in the binding.
C16_ReturnedValueIsDefensiveCopy ==
    [][last'.op \in {"mutate", "mutate_nested"}
          => (lists'[StoredList] = lists[StoredList] /\ StoredValue' = StoredValue)]_vars

\* C18: after any bind and reassociate calls the stored value, when set,
\* satisfies every constraint of the variable the Binding is associated with;
\* a reassociate(w) that failed on a set value has left the Binding with its
\* previous variable, so the Binding is not associated with w.
C18_ValueSatisfiesAssociatedVariable ==
    binding_value # None =>
        /\ \A c \in ConstraintsOf(var_constraints[binding_variable]) :
                Evaluate(c, binding_value)
        /\ (last.op = "reassociate" /\ last.res # "ok")
                => binding_variable # last.target

\* C19: constrain and unconstrain on the Variable that the Binding.variable
\* accessor returned do not change the constraints that bind validates against.
C19_ReturnedVariableIsIndependent ==
    [][last'.op \in {"returned.constrain", "returned.unconstrain"}
          => ConstraintsOf(var_constraints'[binding_variable]) = BindingConstraints]_vars

(***************************************************************************)
(* Properties of Problem.                                                  *)
(***************************************************************************)
\* C15: in every state of a Problem, after construction and after any
\* assignment to variables, the variables of its list have distinct names.
C15_VariableNamesDistinct ==
    \A i, j \in DOMAIN base.variables :
        i # j => base.variables[i] # base.variables[j]

(***************************************************************************)
(* Properties of ConstraintSet.                                            *)
(***************************************************************************)
AddOps == {"add_constraint", "add_constraints"}
RemoveOps == {"remove_constraint", "remove_constraints"}

\* every constraint of the argument is equal to a member of S
AllPresent(S, arg) ==
    \A i \in DOMAIN Normalise(arg) : HasEqual(S, Normalise(arg)[i])

\* no constraint of the argument is equal to a member of S
AllAbsent(S, arg) ==
    \A i \in DOMAIN Normalise(arg) : ~HasEqual(S, Normalise(arg)[i])

NoEqualPair(S) == \A a, b \in S : ConstraintEq(a, b) => a = b

\* C9: adding constraints that are equal to members of the set leaves the
\* members and their number as they were and raises nothing; the set never
\* holds two constraints that are equal.
C9_AddIsIdempotentByEquality ==
    /\ [](NoEqualPair(ConstraintsOf(set_constraints)))
    /\ [][(/\ last'.op \in AddOps
           /\ Normalise(last'.arg) # <<>>
           /\ AllPresent(ConstraintsOf(set_constraints), last'.arg))
            => (set_constraints' = set_constraints /\ last'.res = "ok")]_vars

\* a second Constraint object, equal to a member, was added and absorbed
C9_Witness ==
    /\ last.op = "add_constraint" /\ last.res = "ok"
    /\ last.arg.c \notin ConstraintsOf(set_constraints)
    /\ HasEqual(ConstraintsOf(set_constraints), last.arg.c)

\* C10: removing constraints the set does not contain leaves the set
\* unchanged and raises nothing.
C10_RemoveAbsentIsNoOp ==
    [][(/\ last'.op \in RemoveOps
        /\ AllAbsent(ConstraintsOf(set_constraints), last'.arg))
          => (set_constraints' = set_constraints /\ last'.res = "ok")]_vars

\* the parameters of the constraints of S: S as a mathematical set, up to equality
Keys(S) == {c.hi : c \in S}
ArgKeys(arg) == {Normalise(arg)[i].hi : i \in DOMAIN Normalise(arg)}

\* what the operation does to a mathematical set K
ReferenceSet(K, op, arg) ==
    IF op \in AddOps THEN K \cup ArgKeys(arg)
    ELSE IF op \in RemoveOps THEN K \ ArgKeys(arg)
    ELSE {}

\* C17: every add, remove and clear completes without an error, and the
\* constraints accessor then returns what the same operation gives on a
\* mathematical set; so after clear() the set is empty and add_constraint(c)
\* makes it hold exactly c.
C17_AgreesWithReferenceSet ==
    [][last'.op \in AddOps \cup RemoveOps \cup {"clear"}
          => (/\ last'.res = "ok"
              /\ Keys(ConstraintsOf(set_constraints'))
                    = ReferenceSet(Keys(ConstraintsOf(set_constraints)),
                                   last'.op, last'.arg))]_vars

====
